---- MODULE Spec2Model ----
(***************************************************************************)
(* Model of the two Premiere publish hooks                                 *)
(*   hooks/tk-multi-publish2/basic/publish_render.py  ("movie" plugin)     *)
(*   hooks/tk-multi-publish2/basic/publish_xml.py     ("edl" plugin)       *)
(* Each lifecycle method (accept, validate, publish, finalize) is one      *)
(* action.  accept, validate, finalize and _get_version_entity are the     *)
(* same code in both classes: one action models both and the variable      *)
(* plugin says which class runs it.  publish differs and has one action    *)
(* per class.  Strings that the code parses (item names, project paths) are   *)
(* sequences of one-character strings; an optional value (Python None or   *)
(* an absent dictionary key) is a sequence of length 0, a present value x  *)
(* is <<x>>.                                                               *)
(***************************************************************************)
EXTENDS Integers, Sequences, FiniteSets, TLC

\* ---------------------------------------------------------------- bounds
MaxLen == 4

\* ------------------------------------------------------- optional values
None == <<>>

Some(x) == <<x>>

\* ------------------------------------------------------------ characters
Digit == {"0", "1"}

NameChar == {"v", "0", "1", "."}

SEP == "/"

DigitVal(c) == IF c = "1" THEN 1 ELSE 0

\* all strings over alphabet A of length at most n
StringsUpTo(A, n) == UNION {[1..k -> A] : k \in 0..n}

\* ------------------------------------------------------ string functions
\* s[i..] as a sequence
Drop(s, i) == SubSeq(s, i, Len(s))

\* index of the first occurrence of c in s, Len(s)+1 when there is none
RECURSIVE FirstIndexFrom(_, _, _)
FirstIndexFrom(s, c, i) ==
    IF i > Len(s) THEN Len(s) + 1
    ELSE IF s[i] = c THEN i
    ELSE FirstIndexFrom(s, c, i + 1)

\* str.split(c): the list of pieces between occurrences of c
RECURSIVE Split(_, _)
Split(s, c) ==
    LET k == FirstIndexFrom(s, c, 1)
    IN IF k > Len(s) THEN <<s>>
       ELSE <<SubSeq(s, 1, k - 1)>> \o Split(Drop(s, k + 1), c)

\* end index of the greedy digit run that starts at i (i - 1 when s[i] is
\* no digit)
RECURSIVE DigitRunEnd(_, _)
DigitRunEnd(s, i) ==
    IF i <= Len(s) /\ s[i] \in Digit THEN DigitRunEnd(s, i + 1) ELSE i - 1

\* re.findall(r'v[0-9]+', s): leftmost, greedy, non-overlapping matches
RECURSIVE FindAllVDigits(_, _)
FindAllVDigits(s, i) ==
    IF i > Len(s) THEN <<>>
    ELSE IF s[i] = "v" /\ DigitRunEnd(s, i + 1) >= i + 1
         THEN <<SubSeq(s, i, DigitRunEnd(s, i + 1))>>
              \o FindAllVDigits(s, DigitRunEnd(s, i + 1) + 1)
         ELSE FindAllVDigits(s, i + 1)

\* re.findall(r'[0-9]+', s)
RECURSIVE FindAllDigits(_, _)
FindAllDigits(s, i) ==
    IF i > Len(s) THEN <<>>
    ELSE IF s[i] \in Digit
         THEN <<SubSeq(s, i, DigitRunEnd(s, i))>>
              \o FindAllDigits(s, DigitRunEnd(s, i) + 1)
         ELSE FindAllDigits(s, i + 1)

\* re.findall(r'[0-9]{3}', s)
RECURSIVE FindAll3Digits(_, _)
FindAll3Digits(s, i) ==
    IF i + 2 > Len(s) THEN <<>>
    ELSE IF s[i] \in Digit /\ s[i + 1] \in Digit /\ s[i + 2] \in Digit
         THEN <<SubSeq(s, i, i + 2)>> \o FindAll3Digits(s, i + 3)
         ELSE FindAll3Digits(s, i + 1)

\* int(s) for a non-empty string of decimal digits
RECURSIVE PyInt(_)
PyInt(s) ==
    IF Len(s) = 0 THEN 0
    ELSE 10 * PyInt(SubSeq(s, 1, Len(s) - 1)) + DigitVal(s[Len(s)])

\* list[0] where the code says list[-1]
LastAsFirst(l) == l[1]

\* list[-1]
Last(l) == l[Len(l)]

\* the path taken as it is
NormalizeAsIs(p) == p

\* sgtk.util.ShotgunPath.normalize: no doubled separators, no trailing
\* separator
RECURSIVE Normalize(_)
Normalize(p) ==
    IF Len(p) = 0 THEN p
    ELSE IF Len(p) >= 2 /\ p[1] = SEP /\ p[2] = SEP THEN Normalize(Tail(p))
    ELSE IF Len(p) = 1 /\ p[1] = SEP THEN <<>>
    ELSE <<p[1]>> \o Normalize(Tail(p))

\* os.path.basename: what follows the last separator
RECURSIVE Basename(_)
Basename(p) ==
    IF FirstIndexFrom(p, SEP, 1) > Len(p) THEN p
    ELSE Basename(Drop(p, FirstIndexFrom(p, SEP, 1) + 1))

\* ------------------------------------------------------- module globals
Plugins == {"movie", "edl"}

\* names bound at module level by the import statements and the class
\* statement of each hook file
ModuleGlobals(p) ==
    IF p = "movie"
    THEN {"os", "re", "pprint", "tempfile", "uuid", "sys", "sgtk", "six",
          "HookBaseClass", "PremiereUploadVersionPlugin"}
    ELSE {"os", "pprint", "tempfile", "uuid", "sys", "sgtk", "six",
          "HookBaseClass", "PremiereUploadEDLPlugin"}

\* evaluating a global name: the exception it raises, "none" when bound
NameLookup(p, n) == IF n \in ModuleGlobals(p) THEN "none" ELSE "NameError"

\* the plugin's display name (the name property)
PluginName(p) == IF p = "movie" THEN "Upload for review" ELSE "Upload EDL"

\* ------------------------------------------------------------ the inputs
Names == StringsUpTo(NameChar, MaxLen)

\* engine.project_path: empty when the project was never saved
UnsavedPath == <<>>

SavedPaths ==
    {<<SEP>> \o n : n \in Names \ {<<>>}}
    \cup {<<SEP, SEP>> \o n \o <<SEP>> : n \in StringsUpTo(NameChar, 1) \ {<<>>}}

FewPaths == {UnsavedPath, <<SEP, "v", "1">>, <<SEP, SEP, "0", SEP>>}

\* templates known to the engine, by name
TemplateNames == {"premiere_publish", "premiere_publish_alt"}

\* values of the "Publish Template" setting
SettingValues ==
    {None, Some("premiere_publish"), Some("premiere_publish_alt"),
     Some("no_such_template")}

\* engine.get_template_by_name
GetTemplateByName(v) ==
    IF v # None /\ v[1] \in TemplateNames THEN Some(v[1]) ELSE None

\* truth value of an optional value
Truthy(v) == v # None

Entity == [type |-> "Shot", id |-> 11]

Project == [type |-> "Project", id |-> 7]

Task == [type |-> "Task", id |-> 3]

Contexts ==
    [entity : {None, Some(Entity)}, project : {None, Some(Project)},
     task : {Some(Task)}]

PublishRecord(i) ==
    [type |-> "PublishedFile", id |-> i, upstream_published_files |-> None]

Rendering == [type |-> "PublishedFile", id |-> 55]

NoProperties ==
    [work_template |-> None, publish_template |-> None, path |-> None,
     publish_type |-> None, sg_publish_data |-> None,
     published_renderings |-> None, sg_version_data |-> None,
     upload_path |-> None]

\* what the collector may have left on the item before the plugin runs
CollectedProperties ==
    {[NoProperties EXCEPT !.work_template = wt, !.sg_publish_data = spd,
                          !.published_renderings = pr] :
        wt \in {None, Some("premiere_work")},
        spd \in {None, Some(PublishRecord(40))},
        pr \in {None, Some(<<Rendering>>)}}

InitialNames == {<<"v", "0">>, <<"0", ".", "1">>}

\* ------------------------------------------------------------- the state
VARIABLES
    plugin,        \* which hook class the host loaded
    project_path,  \* engine.project_path
    setting,       \* settings["Publish Template"].value
    item,          \* the publish item
    phase,         \* where the host is in accept/validate/publish/finalize
    result,        \* outcome of the last lifecycle call
    calls,         \* external calls made by the last lifecycle call
    log,           \* logger records emitted by the last lifecycle call
    render,        \* the template rendering done by the last publish call
    linked,        \* what a direct call of _get_version_entity returned
    seen_path      \* <<engine.project_path>> as the last validate call read it

vars ==
    <<plugin, project_path, setting, item, phase, result, calls, log, render,
      linked, seen_path>>

NoResult == [op |-> "none", status |-> "none", value |-> None, exc |-> "none"]

Returned(op, v) ==
    [op |-> op, status |-> "returned", value |-> v, exc |-> "none"]

Raised(op, e) == [op |-> op, status |-> "raised", value |-> None, exc |-> e]

LogRec(level, msg, action) == [level |-> level, msg |-> msg, action |-> action]

\* every project name, one configuration of everything else
InitNames ==
    /\ project_path \in SavedPaths
    /\ setting = Some("premiere_publish")
    /\ item \in [name : {<<"v", "0">>}, description : {"review"},
                 context_change_allowed : {TRUE},
                 context : {[entity |-> Some(Entity),
                             project |-> Some(Project),
                             task |-> Some(Task)]},
                 properties : {p \in CollectedProperties :
                                 /\ p.work_template = None
                                 /\ p.published_renderings = None}]

\* every configuration, a few project names
InitItems ==
    /\ project_path \in FewPaths
    /\ setting \in SettingValues
    /\ item \in [name : InitialNames, description : {"review"},
                 context_change_allowed : BOOLEAN,
                 context : Contexts,
                 properties : CollectedProperties]

Init ==
    /\ plugin \in Plugins
    /\ InitNames \/ InitItems
    /\ phase = "collected"
    /\ result = NoResult
    /\ calls = <<>>
    /\ log = <<>>
    /\ render = None
    /\ linked = None
    /\ seen_path = None

\* the state a lifecycle call leaves behind
Finish(it, ph, res, cs, lg, rn) ==
    /\ item' = it
    /\ phase' = ph
    /\ result' = res
    /\ calls' = cs
    /\ log' = lg
    /\ render' = rn
    /\ seen_path' = IF res.op = "validate" THEN Some(project_path)
                    ELSE seen_path
    /\ UNCHANGED <<plugin, project_path, setting, linked>>

\* ---------------------------------------------------------------- accept
\* accept refusing a project that was never saved
AcceptReturnUnlessUnsaved ==
    [accepted |-> project_path # UnsavedPath, checked |-> TRUE]

\* the dictionary accept returns
AcceptReturn == [accepted |-> TRUE, checked |-> TRUE]

\* context change disabled whatever the setting
AcceptedItemAlwaysLocked(it, v) == [it EXCEPT !.context_change_allowed = FALSE]

\* the item as accept leaves it: context change is disabled if a publish
\* template is configured
AcceptedItem(it, v) ==
    IF Truthy(v) THEN [it EXCEPT !.context_change_allowed = FALSE] ELSE it

AcceptHook ==
    /\ phase = "collected"
    /\ Finish(AcceptedItem(item, setting),
              "accepted",
              Returned("accept", Some(AcceptReturn)),
              <<>>,
              (IF project_path = UnsavedPath
               THEN <<LogRec("warning",
                             "The Premiere project has not been saved.",
                             "save_as")>>
               ELSE <<>>)
              \o <<LogRec("info", PluginName(plugin), "none")>>,
              None)

\* -------------------------------------------------------------- validate
\* outcomes of the base class validate: True, False, or an exception
SuperValidateOutcomes == {Some(TRUE), Some(FALSE), None}

SuperValidateCall(o) == [op |-> "super_validate", outcome |-> o]

\* work_template.validate(path) and what it answered
WorkTemplateCall(matches) ==
    [op |-> "work_template_validate", outcome |-> Some(matches)]

\* the exception that `raise ProjectUnsavedError(error_msg)` ends with
RaiseProjectUnsaved(p) ==
    IF NameLookup(p, "ProjectUnsavedError") = "none"
    THEN "ProjectUnsavedError"
    ELSE NameLookup(p, "ProjectUnsavedError")

\* the work template check with the mismatch logged at debug level
WorkTemplateLogQuiet(wt, matches) ==
    IF Truthy(wt)
    THEN LogRec("debug", "Work template configured.", "none")
    ELSE LogRec("debug", "No work template configured.", "none")

\* the log record of the work template check
WorkTemplateLog(wt, matches) ==
    IF Truthy(wt)
    THEN IF ~matches
         THEN LogRec("warning",
                     "The current project does not match the configured work template.",
                     "save_file")
         ELSE LogRec("debug",
                     "Work template configured and matches project path.",
                     "none")
    ELSE LogRec("debug", "No work template configured.", "none")

ValidateHook ==
    /\ phase \in {"accepted", "invalid"}
    /\ IF project_path = UnsavedPath
       THEN Finish(item, "invalid",
                   Raised("validate", RaiseProjectUnsaved(plugin)),
                   <<>>,
                   <<LogRec("error", "The Premiere project has not been saved.",
                            "save_as")>>,
                   None)
       ELSE \E matches \in BOOLEAN, o \in SuperValidateOutcomes :
              LET path == Normalize(project_path)
                  publish_template == GetTemplateByName(setting)
                  props1 == IF Truthy(publish_template)
                            THEN [item.properties EXCEPT
                                    !.publish_template = publish_template]
                            ELSE item.properties
                  item1 == [item EXCEPT
                              !.name = Basename(path),
                              !.properties = [props1 EXCEPT !.path = Some(path)]]
              IN Finish(item1,
                        IF o = Some(TRUE) THEN "validated" ELSE "invalid",
                        IF o = None
                        THEN Raised("validate", "SuperValidateError")
                        ELSE Returned("validate", o),
                        (IF Truthy(item.properties.work_template)
                         THEN <<WorkTemplateCall(matches)>>
                         ELSE <<>>)
                        \o <<SuperValidateCall(o)>>,
                        <<WorkTemplateLog(item.properties.work_template,
                                          matches)>>,
                        None)


\* --------------------------------------------------------------- publish
\* what template.apply_fields may hand back
RenderResults == {None, Some(<<>>), Some(<<SEP, "o", "u", "t">>)}

\* the external call of a publish run that fails, if any
FailPoints ==
    {"none", "apply_fields", "export", "super_publish", "create", "upload"}

\* what the base class publish leaves in properties["sg_publish_data"]
SuperPublishEffects == {"set", "keep", "clear"}

\* ids the tracking database hands out for a new Version
VersionIds == {900, 901}

MoviePreset == "Match Source - DNxHD.epr"

PublishType == "Rendered Image"

\* six.ensure_str of a native string
EnsureStr(s) == s

\* the helper with the two tests swapped
GetVersionEntityProjectFirst(it) ==
    IF Truthy(it.context.project) THEN it.context.project
    ELSE IF Truthy(it.context.entity) THEN it.context.entity
    ELSE None

\* _get_version_entity: the best entity to link the version to
GetVersionEntity(it) ==
    IF Truthy(it.context.entity) THEN it.context.entity
    ELSE IF Truthy(it.context.project) THEN it.context.project
    ELSE None

\* the first lines of publish: re-fetch the publish template
RefetchTemplate(it) ==
    IF Truthy(GetTemplateByName(setting))
    THEN [it EXCEPT !.properties.publish_template = GetTemplateByName(setting)]
    ELSE it

\* a publish that falls back on a default template when the item has none
TemplateHeldOrDefault(it) ==
    IF it.properties.publish_template = None
    THEN Some("premiere_publish")
    ELSE it.properties.publish_template

\* item.properties['publish_template'] as publish reads it: None stands for
\* the KeyError of a missing entry
TemplateHeld(it) == it.properties.publish_template

\* a host that runs publish whether or not validate returned True
HostMayPublishAnytime == phase \in {"accepted", "invalid", "validated"}

\* the host runs publish for an item only after validate returned True
HostMayPublish == phase = "validated"

RenderRec(t, n, v, r) == [template |-> t, name |-> n, version |-> v, path |-> r]

ExportMovieCall(path) ==
    [op |-> "export", command |-> "exportAsMediaDirect", path |-> path,
     preset |-> MoviePreset, mode |-> 2]

ExportXMLCall(path) ==
    [op |-> "export", command |-> "exportAsFinalCutProXML", path |-> path,
     preset |-> "", mode |-> 1]

SuperPublishCall == [op |-> "super_publish"]

\* shotgun.create("Version", data); returned is None when the call raised
CreateCall(data, returned) ==
    [op |-> "create", entity_type |-> "Version", data |-> data,
     returned |-> returned]

\* the upload sent to a fixed record instead of the created one
UploadCallFixedId(id, path) ==
    [op |-> "upload", entity_type |-> "Version", id |-> 900, path |-> path,
     field |-> "sg_uploaded_movie"]

UploadCall(id, path) ==
    [op |-> "upload", entity_type |-> "Version", id |-> id, path |-> path,
     field |-> "sg_uploaded_movie"]

NoRenderPathLog == LogRec("error", "No render path found", "none")

SuperPublishEffect(e, spd) ==
    IF e = "set" THEN Some(PublishRecord(41))
    ELSE IF e = "clear" THEN None
    ELSE spd

\* the payload with the renderings listed before the publish data
VersionDataRenderingsFirst(it, path, spd, renderings) ==
    [project |-> it.context.project,
     code |-> Basename(path),
     description |-> it.description,
     entity |-> GetVersionEntity(it),
     sg_task |-> it.context.task,
     sg_path_to_movie |-> path,
     published_files |->
        (IF Truthy(renderings) THEN renderings[1] ELSE <<>>)
        \o (IF Truthy(spd) THEN <<spd[1]>> ELSE <<>>)]

\* version_data as passed to shotgun.create
VersionData(it, path, spd, renderings) ==
    [project |-> it.context.project,
     code |-> Basename(path),
     description |-> it.description,
     entity |-> GetVersionEntity(it),
     sg_task |-> it.context.task,
     sg_path_to_movie |-> path,
     published_files |->
        (IF Truthy(spd) THEN <<spd[1]>> ELSE <<>>)
        \o (IF Truthy(renderings) THEN renderings[1] ELSE <<>>)]

\* the part of the movie publish that follows the export command
PublishMovieTail(it, rendered, fail, effect, vid, rn, cs0) ==
    IF rendered = None
    THEN Finish(it, "published", Returned("publish", None), cs0,
                <<NoRenderPathLog>>, rn)
    ELSE
    LET path == rendered[1]
        it2 == [it EXCEPT !.properties.path = Some(path),
                          !.properties.publish_type = Some(PublishType)]
    IN
    IF it2.properties.sg_publish_data = None
    THEN Finish(it2, "failed", Raised("publish", "KeyError"), cs0, <<>>, rn)
    ELSE
    LET spd2 == [it2.properties.sg_publish_data[1] EXCEPT
                    !.upstream_published_files = GetVersionEntity(it)]
        it3 == [it2 EXCEPT !.properties.sg_publish_data = Some(spd2)]
        cs1 == cs0 \o <<SuperPublishCall>>
    IN
    IF fail = "super_publish"
    THEN Finish(it3, "failed", Raised("publish", "ExternalError"), cs1,
                <<>>, rn)
    ELSE
    LET it4 == [it3 EXCEPT !.properties.sg_publish_data =
                              SuperPublishEffect(effect, Some(spd2))]
        data == VersionData(it4, path, it4.properties.sg_publish_data,
                            it4.properties.published_renderings)
    IN
    IF fail = "create"
    THEN Finish(it4, "failed", Raised("publish", "ExternalError"),
                cs1 \o <<CreateCall(data, None)>>, <<>>, rn)
    ELSE
    LET version == [type |-> "Version", id |-> vid]
        cs2 == cs1 \o <<CreateCall(data, Some(version))>>
        it5 == [it4 EXCEPT !.properties.sg_version_data = Some(version)]
        upload_path == EnsureStr(path)
        cs3 == cs2 \o <<UploadCall(version.id, upload_path)>>
    IN
    IF fail = "upload"
    THEN Finish(it5, "failed", Raised("publish", "ExternalError"), cs3,
                <<>>, rn)
    ELSE Finish([it5 EXCEPT !.properties.upload_path = Some(upload_path)],
                "published", Returned("publish", None), cs3, <<>>, rn)

PublishMovie ==
    /\ plugin = "movie"
    /\ HostMayPublish
    /\ \E rendered \in RenderResults, fail \in FailPoints,
          effect \in SuperPublishEffects, vid \in VersionIds :
         LET it1 == RefetchTemplate(item)
             name == Split(item.name, ".")[1]
             matches == FindAllVDigits(item.name, 1)
         IN
         IF NameLookup(plugin, "re") # "none"
         THEN Finish(it1, "failed", Raised("publish", NameLookup(plugin, "re")),
                     <<>>, <<>>, None)
         ELSE IF matches = <<>>
         THEN Finish(it1, "failed", Raised("publish", "IndexError"),
                     <<>>, <<>>, None)
         ELSE
         LET version == PyInt(Last(FindAllDigits(Last(matches), 1)))
             template == TemplateHeld(it1)
         IN
         IF template = None
         THEN Finish(it1, "failed", Raised("publish", "KeyError"),
                     <<>>, <<>>, None)
         ELSE IF fail = "apply_fields"
         THEN Finish(it1, "failed", Raised("publish", "ExternalError"),
                     <<>>, <<>>, Some(RenderRec(template[1], name, version, None)))
         ELSE
         LET rn == Some(RenderRec(template[1], name, version, rendered))
             cs0 == <<ExportMovieCall(rendered)>>
         IN
         IF fail = "export"
         THEN Finish(it1, "failed", Raised("publish", "ExternalError"),
                     cs0, <<>>, rn)
         ELSE PublishMovieTail(it1, rendered, fail, effect, vid, rn, cs0)

PublishEDL ==
    /\ plugin = "edl"
    /\ HostMayPublish
    /\ \E rendered \in RenderResults, fail \in FailPoints :
         LET it1 == RefetchTemplate(item)
             pieces == Split(item.name, ".")
             name == pieces[1]
         IN
         IF Len(pieces) < 2
         THEN Finish(it1, "failed", Raised("publish", "IndexError"),
                     <<>>, <<>>, None)
         ELSE IF NameLookup(plugin, "re") # "none"
         THEN Finish(it1, "failed", Raised("publish", NameLookup(plugin, "re")),
                     <<>>, <<>>, None)
         ELSE IF FindAll3Digits(name, 1) = <<>>
         THEN Finish(it1, "failed", Raised("publish", "IndexError"),
                     <<>>, <<>>, None)
         ELSE
         LET version == PyInt(Last(FindAll3Digits(name, 1)))
             template == TemplateHeld(it1)
         IN
         IF template = None
         THEN Finish(it1, "failed", Raised("publish", "KeyError"),
                     <<>>, <<>>, None)
         ELSE IF fail = "apply_fields"
         THEN Finish(it1, "failed", Raised("publish", "ExternalError"),
                     <<>>, <<>>, Some(RenderRec(template[1], name, version, None)))
         ELSE
         LET rn == Some(RenderRec(template[1], name, version, rendered))
             cs0 == <<ExportXMLCall(rendered)>>
         IN
         IF fail = "export"
         THEN Finish(it1, "failed", Raised("publish", "ExternalError"),
                     cs0, <<>>, rn)
         ELSE IF rendered = None
         THEN Finish(it1, "published", Returned("publish", None), cs0,
                     <<NoRenderPathLog>>, rn)
         ELSE
         LET it2 == [it1 EXCEPT !.properties.path = rendered,
                                !.properties.publish_type = Some(PublishType)]
             cs1 == cs0 \o <<SuperPublishCall>>
         IN
         IF fail = "super_publish"
         THEN Finish(it2, "failed", Raised("publish", "ExternalError"),
                     cs1, <<>>, rn)
         ELSE Finish(it2, "published", Returned("publish", None), cs1,
                     <<LogRec("info", "Publish complete!", "none")>>, rn)

\* -------------------------------------------------------------- finalize
FinalizeHook ==
    /\ phase = "published"
    /\ Finish(item, "finalized", Returned("finalize", None),
              <<[op |-> "super_finalize"]>>, <<>>, None)


\* ------------------------------------------------- _get_version_entity
\* a direct call of the helper on the item; linked holds <<returned value>>
CallGetVersionEntity ==
    /\ linked = None
    /\ linked' = Some(GetVersionEntity(item))
    /\ UNCHANGED <<plugin, project_path, setting, item, phase, result, calls,
                   log, render, seen_path>>


\* ------------------------------------------------- the host and the user
\* the save-as callback offered by the log records: the project gets a path
SaveAs ==
    /\ phase \in {"accepted", "invalid"}
    /\ project_path = UnsavedPath
    /\ project_path' \in FewPaths \ {UnsavedPath}
    /\ UNCHANGED <<plugin, setting, item, phase, result, calls, log, render,
                   linked, seen_path>>

\* the configuration changes after a validation, before a retry or before
\* the publish
ChangeSetting ==
    /\ phase \in {"invalid", "validated"}
    /\ setting' \in SettingValues \ {setting}
    /\ UNCHANGED <<plugin, project_path, item, phase, result, calls, log,
                   render, linked, seen_path>>

\* ------------------------------------------------------ the specification
Next ==
    \/ AcceptHook
    \/ ValidateHook
    \/ PublishMovie
    \/ PublishEDL
    \/ FinalizeHook
    \/ CallGetVersionEntity
    \/ SaveAs
    \/ ChangeSetting

Spec == Init /\ [][Next]_vars

\* a step in which validate ran
ValidateStep == result'.op = "validate" /\ ValidateHook

\* =================================================================== C1
\* C1: in both plugins, whenever the host project path is empty, validate
\* logs an error carrying the save-as action and raises ProjectUnsavedError,
\* without calling the superclass validation and without changing the item.
C1_UnsavedRaisesProjectUnsavedError ==
    [][(ValidateStep /\ project_path = UnsavedPath)
         => /\ result' = Raised("validate", "ProjectUnsavedError")
            /\ calls' = <<>>
            /\ item' = item
            /\ \E i \in 1..Len(log') :
                 log'[i].level = "error" /\ log'[i].action = "save_as"]_vars

\* ------------------------------------------------ vocabulary of the claims
\* the operations named op among the external calls cs
CallsOf(cs, op) == {i \in 1..Len(cs) : cs[i].op = op}

\* a log record of the given level was emitted
Logged(lg, level) == \E i \in 1..Len(lg) : lg[i].level = level

\* the four properties publish writes
PublishWrites(props) ==
    <<props.path, props.publish_type, props.sg_version_data, props.upload_path>>

\* a step in which publish ran, in either plugin: the last lifecycle call
\* becomes a publish call
PublishStep == result.op # "publish" /\ result'.op = "publish"

\* =================================================================== C2
\* C2: in both plugins, when the destination path rendered from the publish
\* template is null or empty (and the export command returns), publish logs
\* an error and returns normally, without calling the superclass publish,
\* without create or upload, and without writing 'path', 'publish_type',
\* 'sg_version_data' or 'upload_path' into item.properties.
C2_NullOrEmptyPathReturnsEarly ==
    [][(PublishStep /\ render' # None
          /\ render'[1].path \in {None, Some(<<>>)}
          /\ result'.exc # "ExternalError")
         => /\ result' = Returned("publish", None)
            /\ Logged(log', "error")
            /\ CallsOf(calls', "super_publish") = {}
            /\ CallsOf(calls', "create") = {}
            /\ CallsOf(calls', "upload") = {}
            /\ PublishWrites(item'.properties) = PublishWrites(item.properties)
       ]_vars

\* =================================================================== C3
\* C3: in the EDL plugin's publish, for an item name '<name>.<rest>' whose
\* name portion holds a three-digit run, the derived name is the portion
\* before the first dot and the derived version is the value of the last
\* three-digit run of that portion; with no three-digit run publish raises
\* from indexing the empty match list before any export command.
C3_EDLNameAndVersion ==
    [][(plugin = "edl" /\ PublishStep /\ Len(Split(item.name, ".")) >= 2
          /\ item'.properties.publish_template # None
          /\ result'.exc # "ExternalError")
         => LET portion == Split(item.name, ".")[1]
            IN IF FindAll3Digits(portion, 1) # <<>>
               THEN /\ render' # None
                    /\ render'[1].name = portion
                    /\ render'[1].version
                         = PyInt(Last(FindAll3Digits(portion, 1)))
               ELSE /\ result' = Raised("publish", "IndexError")
                    /\ CallsOf(calls', "export") = {}
       ]_vars

\* =================================================================== C5
\* C5: in both plugins, whenever the rendered destination path is present,
\* publish sets properties['path'] to it and properties['publish_type'] to
\* the publish-type label and then calls the superclass publish exactly
\* once, also for an item without an 'sg_publish_data' entry.
C5_PathPresentReachesSuperPublish ==
    [][(PublishStep /\ render' # None /\ render'[1].path # None
          /\ result'.exc # "ExternalError")
         => /\ item'.properties.path = render'[1].path
            /\ item'.properties.publish_type = Some(PublishType)
            /\ Cardinality(CallsOf(calls', "super_publish")) = 1
       ]_vars

\* =================================================================== C4
\* positions of a 'v' that is followed by a digit
VPositions(s) == {i \in 1..(Len(s) - 1) : s[i] = "v" /\ s[i + 1] \in Digit}

\* the last such position
LastVPosition(s) == CHOOSE i \in VPositions(s) : \A j \in VPositions(s) : j <= i

\* where the digits that follow position i stop
DigitsEndAfter(s, i) ==
    CHOOSE j \in (i + 1)..Len(s) :
        /\ \A k \in (i + 1)..j : s[k] \in Digit
        /\ j = Len(s) \/ s[j + 1] \notin Digit

RECURSIVE Pow10(_)
Pow10(n) == IF n = 0 THEN 1 ELSE 10 * Pow10(n - 1)

\* decimal value of s[a..b], most significant digit first
RECURSIVE DecimalValue(_, _, _)
DecimalValue(s, a, b) ==
    IF a > b THEN 0
    ELSE DigitVal(s[a]) * Pow10(b - a) + DecimalValue(s, a + 1, b)

\* the portion of s before its first dot
BeforeFirstDot(s) ==
    LET k == CHOOSE n \in 0..Len(s) :
                /\ \A i \in 1..n : s[i] # "."
                /\ n = Len(s) \/ s[n + 1] = "."
    IN SubSeq(s, 1, k)

\* C4: in the movie plugin's publish, for an item name with an occurrence of
\* 'v' followed by digits, the derived version is the integer value of the
\* digits of the last such occurrence in the whole name and the derived name
\* is the portion before the first dot; without such an occurrence publish
\* raises before any export command is issued.
C4_MovieNameAndVersion ==
    [][(plugin = "movie" /\ PublishStep)
         => IF VPositions(item.name) # {}
            THEN render' # None
                   => /\ render'[1].version
                           = DecimalValue(item.name,
                                          LastVPosition(item.name) + 1,
                                          DigitsEndAfter(item.name,
                                              LastVPosition(item.name)))
                      /\ render'[1].name = BeforeFirstDot(item.name)
            ELSE /\ result'.status = "raised"
                 /\ render' = None
                 /\ CallsOf(calls', "export") = {}
       ]_vars

\* a movie publish derived version 1 from "v0v1", the last of two occurrences
C4_Witness ==
    /\ plugin = "movie"
    /\ result.op = "publish"
    /\ item.name = <<"v", "0", "v", "1">>
    /\ render # None
    /\ render[1].version = 1

\* =================================================================== C6
\* the run of the movie publish went to its last statement
MovieRanToEnd ==
    /\ plugin = "movie"
    /\ result = Returned("publish", None)
    /\ render # None
    /\ render[1].path # None

\* C6: in every run of the movie plugin's publish that runs to its last
\* statement, the external calls are, in this order, the export command, the
\* superclass publish, one create('Version', payload) and one upload; the
\* upload targets the id returned by that create, with the rendered movie path
\* and the field 'sg_uploaded_movie'; afterwards 'sg_version_data' is the
\* record create returned and 'upload_path' the uploaded path.  In no run is
\* there an upload without an earlier successful create.
C6_MovieCallOrder ==
    /\ MovieRanToEnd
         => /\ Len(calls) = 4
            /\ calls[1].op = "export" /\ calls[1].path = render[1].path
            /\ calls[2].op = "super_publish"
            /\ calls[3].op = "create" /\ calls[3].entity_type = "Version"
            /\ calls[3].returned # None
            /\ calls[4].op = "upload" /\ calls[4].entity_type = "Version"
            /\ calls[4].id = calls[3].returned[1].id
            /\ Some(calls[4].path) = render[1].path
            /\ calls[4].field = "sg_uploaded_movie"
            /\ item.properties.sg_version_data = calls[3].returned
            /\ item.properties.upload_path = Some(calls[4].path)
    /\ \A i \in CallsOf(calls, "upload") :
         \E j \in CallsOf(calls, "create") :
            /\ j < i
            /\ calls[j].returned # None
            /\ calls[i].id = calls[j].returned[1].id

\* a movie publish ran to its end and uploaded to the second id
C6_Witness ==
    /\ MovieRanToEnd
    /\ item.properties.sg_version_data = Some([type |-> "Version", id |-> 901])
    /\ item.properties.upload_path = Some(<<SEP, "o", "u", "t">>)

\* =================================================================== C7
\* C7: in both plugins, accept returns exactly {accepted: true, checked:
\* true} and raises nothing, whatever the project path (saved or not) and
\* whatever the Publish Template setting.
C7_AcceptUnconditional ==
    [][AcceptHook
         => result' = Returned("accept",
                               Some([accepted |-> TRUE, checked |-> TRUE]))
       ]_vars

\* an unsaved project with no publish template configured was accepted
C7_Witness ==
    /\ result.op = "accept"
    /\ result.status = "returned"
    /\ project_path = UnsavedPath
    /\ setting = None
    /\ Logged(log, "warning")

\* =================================================================== C8
\* validate got past the unsaved-project gate
ValidatePastGate == result.op = "validate" /\ ~Logged(log, "error")

\* C8: in both plugins, when the project path is non-empty and the work
\* template on the item does not match the normalized path, validate logs a
\* warning and does not fail: as in every run past the unsaved-project gate,
\* it calls the superclass validation exactly once and returns exactly what
\* that call returned (or raises what it raised).
C8_MismatchIsNotFatal ==
    ValidatePastGate
      => /\ Cardinality(CallsOf(calls, "super_validate")) = 1
         /\ LET o == calls[Len(calls)].outcome
            IN /\ calls[Len(calls)].op = "super_validate"
               /\ result = IF o = None
                           THEN Raised("validate", "SuperValidateError")
                           ELSE Returned("validate", o)
         /\ \A i \in CallsOf(calls, "work_template_validate") :
              calls[i].outcome = Some(FALSE)
                => \E k \in 1..Len(log) :
                     log[k].level = "warning" /\ log[k].action = "save_file"

\* validate met a work template mismatch and returned the superclass's True
C8_Witness ==
    /\ ValidatePastGate
    /\ \E i \in CallsOf(calls, "work_template_validate") :
         calls[i].outcome = Some(FALSE)
    /\ Logged(log, "warning")
    /\ result = Returned("validate", Some(TRUE))

\* =================================================================== C9
\* C9: in both plugins, accept sets item.context_change_allowed to false if
\* and only if the 'Publish Template' setting has a value; with no publish
\* template configured it leaves context_change_allowed as it was; in every
\* case it leaves item.name and item.properties unchanged.
C9_AcceptFrame ==
    [][AcceptHook
         => /\ setting # None => item'.context_change_allowed = FALSE
            /\ setting = None
                 => item'.context_change_allowed = item.context_change_allowed
            /\ item'.name = item.name
            /\ item'.properties = item.properties
            /\ item'.context = item.context
       ]_vars

\* accepted without a publish template: context change still allowed
C9_Witness ==
    /\ result.op = "accept"
    /\ setting = None
    /\ item.context_change_allowed = TRUE

\* ================================================================== C10
\* C10: _get_version_entity(item) returns item.context.entity whenever an
\* entity is set, whether or not a project is set; item.context.project when
\* no entity is set but a project is; none when neither is set; and it never
\* modifies the item.
C10_VersionEntityChoice ==
    [][CallGetVersionEntity
         => /\ item' = item
            /\ linked' # None
            /\ item.context.entity # None
                 => linked'[1] = item.context.entity
            /\ (item.context.entity = None /\ item.context.project # None)
                 => linked'[1] = item.context.project
            /\ (item.context.entity = None /\ item.context.project = None)
                 => linked'[1] = None
       ]_vars

\* the helper was called with both an entity and a project set and returned
\* the entity
C10_Witness ==
    /\ linked = Some(Some(Entity))
    /\ item.context.entity # None
    /\ item.context.project # None

\* ================================================================== C11
\* the pieces of a path between separators, empty pieces left out
Components(p) == SelectSeq(Split(p, SEP), LAMBDA c : c # <<>>)

\* q is p in normal form: the same components, no doubled and no trailing
\* separator, a leading separator kept
IsNormalFormOf(q, p) ==
    /\ Components(q) = Components(p)
    /\ \A i \in 1..(Len(q) - 1) : ~(q[i] = SEP /\ q[i + 1] = SEP)
    /\ q = <<>> \/ q[Len(q)] # SEP
    /\ (q # <<>> /\ q[1] = SEP) <=> (p[1] = SEP /\ Components(p) # <<>>)

\* C11: in both plugins, when the project path is non-empty, validate writes
\* properties['publish_template'] only if the configured template name
\* resolves to a template (otherwise an existing entry is left as it was),
\* and before calling the superclass validation it sets properties['path']
\* to the normalized project path and item.name to that path's base name.
C11_ValidateWrites ==
    [][(ValidateStep /\ project_path # UnsavedPath)
         => /\ \/ /\ setting # None
                  /\ setting[1] \in TemplateNames
                  /\ item'.properties.publish_template = setting
               \/ /\ setting = None \/ setting[1] \notin TemplateNames
                  /\ item'.properties.publish_template
                       = item.properties.publish_template
            /\ item'.properties.path # None
            /\ IsNormalFormOf(item'.properties.path[1], project_path)
            /\ Components(project_path) # <<>>
                 => item'.name
                      = Components(project_path)[Len(Components(project_path))]
            /\ CallsOf(calls', "super_validate") # {}
            /\ \A k \in {"work_template", "publish_type", "sg_publish_data",
                         "published_renderings", "sg_version_data",
                         "upload_path"} :
                 item'.properties[k] = item.properties[k]
       ]_vars

\* a second validation, run after the setting stopped resolving, kept the
\* template the first one stored and normalized "//0/" to "/0"
C11_Witness ==
    /\ result.op = "validate"
    /\ project_path = <<SEP, SEP, "0", SEP>>
    /\ setting = Some("no_such_template")
    /\ item.properties.publish_template = Some("premiere_publish")
    /\ item.properties.path = Some(<<SEP, "0">>)
    /\ item.name = <<"0">>

\* ================================================================== C12
\* the item name lets the plugin derive a name and a version
NameParses(p, n) ==
    IF p = "movie" THEN VPositions(n) # {}
    ELSE \E k \in 1..(Len(BeforeFirstDot(n)) - 2) :
            /\ Len(BeforeFirstDot(n)) < Len(n)
            /\ \A j \in k..(k + 2) : n[j] \in Digit

\* the template publish is to use: the one the setting resolves to now,
\* otherwise the one already on the item
TemplateAtPublish ==
    IF setting # None /\ setting[1] \in TemplateNames
    THEN setting
    ELSE item.properties.publish_template

\* C12: in both plugins, publish re-resolves the 'Publish Template' setting:
\* a template it resolves to replaces the one validate stored and is used to
\* render the destination path; if it does not resolve, the stored template
\* is used unchanged.  The path is rendered from the template held in
\* properties['publish_template'] at that moment, with the derived name and
\* version as fields.
C12_TemplateRefetched ==
    [][PublishStep
         => /\ item'.properties.publish_template = TemplateAtPublish
            /\ (NameParses(plugin, item.name) /\ TemplateAtPublish # None)
                 => /\ render' # None
                    /\ Some(render'[1].template) = TemplateAtPublish
                    /\ render'[1].name = BeforeFirstDot(item.name)
       ]_vars

\* ================================================================== C13
\* the file name of a path: its last component
FileNameOf(p) ==
    IF Components(p) = <<>> THEN <<>>
    ELSE Components(p)[Len(Components(p))]

\* the entity the claim expects the Version to be linked to
ExpectedLink(ctx) ==
    CASE ctx.entity # None -> ctx.entity
      [] ctx.entity = None /\ ctx.project # None -> ctx.project
      [] OTHER -> None

\* C13: the Version payload the movie plugin passes to create has project =
\* context project, code = file name of the rendered movie path, description
\* = item description, entity = result of _get_version_entity, sg_task =
\* context task, sg_path_to_movie = rendered movie path, published_files =
\* the item's 'sg_publish_data' as read after the superclass publish (only
\* if present) followed by every entry of 'published_renderings' in order,
\* the empty list when neither is present.
C13_VersionPayload ==
    \A i \in CallsOf(calls, "create") :
       LET data == calls[i].data
           spd == item.properties.sg_publish_data
           pr == item.properties.published_renderings
       IN /\ plugin = "movie"
          /\ render # None /\ render[1].path # None
          /\ data.project = item.context.project
          /\ data.code = FileNameOf(render[1].path[1])
          /\ data.description = item.description
          /\ data.entity = ExpectedLink(item.context)
          /\ data.sg_task = item.context.task
          /\ Some(data.sg_path_to_movie) = render[1].path
          /\ Len(data.published_files)
               = (IF spd # None THEN 1 ELSE 0) + (IF pr # None THEN Len(pr[1]) ELSE 0)
          /\ spd # None => data.published_files[1] = spd[1]
          /\ pr # None
               => \A k \in 1..Len(pr[1]) :
                    data.published_files[Len(data.published_files)
                                         - Len(pr[1]) + k] = pr[1][k]

\* a Version was created whose published_files are the record the superclass
\* publish just registered followed by the collected rendering
C13_Witness ==
    /\ plugin = "movie"
    /\ \E i \in CallsOf(calls, "create") :
         /\ Len(calls[i].data.published_files) = 2
         /\ calls[i].data.published_files[1].id = 41
         /\ calls[i].data.published_files[2] = Rendering

\* ================================================================== C14
\* an export, superclass publish, create or upload was issued
SideEffects(cs) ==
    \E i \in 1..Len(cs) :
       cs[i].op \in {"export", "super_publish", "create", "upload"}

\* C14: in both plugins, publish issues no export command, no superclass
\* publish, no create and no upload unless a publish template is on the item
\* when the path is rendered; if the setting does not resolve at publish time
\* and validate stored none, publish fails with an exception before any
\* external side effect.
C14_NoTemplateNoSideEffect ==
    [][PublishStep
         => /\ SideEffects(calls') => item'.properties.publish_template # None
            /\ (GetTemplateByName(setting) = None
                  /\ item.properties.publish_template = None)
                 => /\ result'.status = "raised"
                    /\ calls' = <<>>
                    /\ render' = None
       ]_vars

\* the movie publish of a well-named item raised KeyError for want of a
\* template, with nothing issued
C14_Witness ==
    /\ plugin = "movie"
    /\ result = Raised("publish", "KeyError")
    /\ item.properties.publish_template = None
    /\ VPositions(item.name) # {}
    /\ calls = <<>>

\* ================================================================== C15
\* an export command, a Version create or an upload was issued
Issued(cs) ==
    \E i \in 1..Len(cs) : cs[i].op \in {"export", "create", "upload"}

\* C15: over any run of the host lifecycle in which the host calls publish
\* for an item only after validate returned true for it, no export command,
\* Version create or upload is issued for an item whose project path was
\* empty at validate time; publish does not look at the project path, so
\* this rests on the host's ordering.
C15_UnsavedNeverExported ==
    Issued(calls) => (seen_path # None /\ seen_path[1] # UnsavedPath)

\* a project validated under the path "/v1" had its sequence exported and a
\* Version created
C15_Witness ==
    /\ Issued(calls)
    /\ CallsOf(calls, "create") # {}
    /\ result.op = "publish"
    /\ seen_path = Some(<<SEP, "v", "1">>)
    /\ item.name = <<"v", "1">>

====
